---- MODULE Spec2Model ----
(***************************************************************************)
(* Model of the insight streaming client of portfolio_assistant_front_end: *)
(* the useInsightsStream hook (src/src/hooks/useInsightsStream.ts) and the *)
(* result cache kept by AISummaryBanner (src/src/api/client.ts).           *)
(*                                                                         *)
(* A session is one call of startStream: an AbortController, a fetch       *)
(* promise, the async then-handler with its read loop, and the catch       *)
(* handler.  JavaScript runs every handler to completion, so an action is  *)
(* one synchronous run: startStream itself, the continuation after one     *)
(* reader.read(), or the catch handler.  A rejection caused by abort() is  *)
(* queued while the aborting code is still running, so its catch handler   *)
(* runs after that code; a rejection caused by the network is handled in   *)
(* the checkpoint of the network event that caused it.                     *)
(*                                                                         *)
(* In Spec the transport delivers whole lines (the text-level buffering of *)
(* lines 81-83 is below this level of abstraction).                        *)
(***************************************************************************)
EXTENDS Integers, Sequences, FiniteSets, TLC

\* ---------------------------------------------------------------- bounds
MaxSessions == 2      \* startStream calls in one behaviour
MaxLines == 3         \* lines the server sends in one behaviour
MaxChunk == 2         \* lines one reader.read() can return
MaxNow == 3720000     \* the clock stops at 62 minutes
MaxTextLines == 3     \* newline-terminated lines of a body sent as text
MaxTickers == 2       \* tickers of the portfolio

Sessions == 1..MaxSessions

\* The longest body: lines of at most 18 characters and a tail of 8.
MaxTextLen == 18 * MaxTextLines + 8

\* ------------------------------------------------------- nullable values
None == <<>>
Some(x) == <<x>>

\* ------------------------------------------------------ parsed payloads
\* The text after "data:".  json says what JSON.parse does with it: "bad"
\* throws, "null" yields null, "object" yields an object with the fields
\* below ("" is an absent field; absent and empty are both falsy).
\* progress_percent is the JSON text of the field, "undefined" when it is
\* absent.  meta_final_answer is the JSON text nested in meta.final_answer.
Obj == [json |-> "object", phase |-> "", progress_percent |-> "undefined",
        has_final_answer |-> FALSE, final_answer |-> None, message |-> "",
        node |-> "", status |-> "", meta_final_answer |-> "",
        summary |-> "", version |-> "", insights |-> "", action |-> ""]

\* InsightsResponse: an object with a version and a list of insights (the
\* list is an abstract id).
Result(v, i) == [Obj EXCEPT !.version = v, !.insights = i]
R1 == Result("1.0", "I1")
R2 == Result("1.0", "I2")

BadJson == [Obj EXCEPT !.json = "bad"]
Prog == [Obj EXCEPT !.phase = "insight_pipeline", !.progress_percent = "50",
                    !.message = "Processing"]
ProgFinal == [Obj EXCEPT !.phase = "insight_pipeline", !.progress_percent = "90",
                         !.has_final_answer = TRUE, !.final_answer = Some(R2)]
Complete == [Obj EXCEPT !.phase = "complete", !.progress_percent = "100",
                        !.has_final_answer = TRUE, !.final_answer = Some(R1)]
FlagOnly == [Obj EXCEPT !.phase = "validation", !.progress_percent = "95",
                        !.has_final_answer = TRUE]
ErrPhase == [Obj EXCEPT !.phase = "error", !.progress_percent = "0",
                        !.message = "pipeline failed"]

\* Payloads of the older schemas and payloads a current server should not
\* send: a phase with a progress_percent that is a string, a phase alone,
\* validator events with a nested answer that parses and one that does not,
\* a summary alone, an SseProgressEvent (action), and an error phase that
\* carries a final answer.
ProgTextPercent == [Obj EXCEPT !.phase = "insight_pipeline",
                               !.progress_percent = "\"50%\"",
                               !.summary = "Processing AAPL"]
PhaseOnly == [Obj EXCEPT !.phase = "data_fetching", !.summary = "Fetching data"]
ValidatorOk == [Obj EXCEPT !.phase = "validation", !.node = "validator",
                           !.status = "result", !.meta_final_answer = "json:R1",
                           !.summary = "Validated"]
ValidatorBad == [Obj EXCEPT !.node = "validator", !.status = "result",
                            !.meta_final_answer = "{\"version\":",
                            !.summary = "Validated"]
SummaryOnly == [Obj EXCEPT !.summary = "Analysing portfolio"]
ActionOnly == [Obj EXCEPT !.action = "fetch_positions", !.message = "Fetching"]
ErrFinal == [Obj EXCEPT !.phase = "error", !.progress_percent = "100",
                        !.has_final_answer = TRUE, !.final_answer = Some(R1),
                        !.message = "validation failed"]

\* The payloads the server sends in the model; R1 is the bare legacy final
\* {version: "1.0", insights: [...]}.
Payloads == {BadJson, Prog, ProgFinal, Complete, FlagOnly, ErrPhase, R1}

\* ----------------------------------------------------------------- lines
\* One line of the response body, classified as the loop classifies it.
BlankLine == [kind |-> "blank", name |-> "", payload |-> Obj]
EventLine(n) == [kind |-> "event", name |-> n, payload |-> Obj]
DataLine(p) == [kind |-> "data", name |-> "", payload |-> p]

EventNames == {"agent_event", "error"}
Lines == {BlankLine} \cup {EventLine(n) : n \in EventNames}
                     \cup {DataLine(p) : p \in Payloads}

\* ------------------------------------------------------------- responses
\* What fetch resolves with (ok, body) or rejects with.
ErrHttp == "HTTP 500: Internal Server Error"
ErrNoReader == "No reader available"
ErrFetch == "Failed to fetch"
ErrNetwork == "network error"
AbortError == "AbortError"

\* ----------------------------------------------------------------- cache
CACHE_DURATION == 30 * 60 * 1000
Minute == 60 * 1000
\* The clock moves between two looks at the page by one of these amounts.
TickSteps == {29 * Minute, 30 * Minute, 31 * Minute}

\* The hook: React state, the controller ref, and per session the position
\* of its promise chain (pc), the signal (aborted), the rejection reason
\* (err), the loop's currentEvent and the lines in flight on its transport.
\* warned counts the console.warn calls of line 156; started and sent count
\* sessions and lines so far.  insightsChanged says that setInsights has
\* put a new object (or null in place of an object) into the state since
\* the effects depending on [insights] last ran.
VARIABLES insights, isStreaming, progress, error, updates,
          abortControllerRef, pc, aborted, err, currentEvent, inflight,
          warned, insightsChanged, started, sent, mounted

\* The banner: Date.now(), its React state (threadId, cachedInsights), the
\* two localStorage keys, the threadId its load effect last ran with, and
\* the number of console.error calls of line 600 on this page.
\* cacheThread is a history variable: the thread id the banner had when
\* the text under CACHE_KEY was written (0 when nothing wrote it).
VARIABLES now, threadId, cachedInsights, lsThreadId, lsCache,
          loadDeps, consoleErrors, cacheThread

\* The response body at the level of text, for one session: the whole body
\* the server sends (text, a sequence of characters), how much of it
\* reader.read() has returned (pos), and the loop's buffer.  frames is a
\* history variable: the (currentEvent, data) pairs the loop has dispatched
\* at line 98.
VARIABLES text, pos, buffer, frames

\* The pipeline tracker: the entries of the pipelineStatus map in insertion
\* order.
VARIABLES pipelineStatus

hookState == <<insights, isStreaming, progress, error, updates>>
hookVars == <<insights, isStreaming, progress, error, updates,
              abortControllerRef, pc, aborted, err, currentEvent, inflight,
              warned, insightsChanged, started, sent, mounted>>
bannerVars == <<now, threadId, cachedInsights, lsThreadId, lsCache,
                loadDeps, consoleErrors, cacheThread>>
wireVars == <<text, pos, buffer, frames>>
trackerVars == <<pipelineStatus>>
auxVars == <<wireVars, trackerVars>>
vars == <<hookVars, bannerVars, auxVars>>

\* The hook after its first render (lines 17-22).
InitHook ==
    /\ insights = None
    /\ isStreaming = FALSE
    /\ progress = None
    /\ error = None
    /\ updates = <<>>
    /\ abortControllerRef = 0
    /\ pc = [s \in Sessions |-> "idle"]
    /\ aborted = [s \in Sessions |-> FALSE]
    /\ err = [s \in Sessions |-> ""]
    /\ currentEvent = [s \in Sessions |-> None]
    /\ inflight = [s \in Sessions |-> <<>>]
    /\ warned = 0
    /\ insightsChanged = FALSE
    /\ started = 0
    /\ sent = 0
    /\ mounted = TRUE

\* No body is being read as text and the tracker is empty.
InitAux ==
    /\ text = <<>>
    /\ pos = 0
    /\ buffer = <<>>
    /\ frames = <<>>
    /\ pipelineStatus = <<>>

Init ==
    /\ InitHook
    /\ InitAux
    /\ now = 0
    /\ threadId = None
    /\ cachedInsights = None
    /\ lsThreadId = 0
    /\ lsCache = None
    /\ loadDeps = None
    /\ consoleErrors = 0
    /\ cacheThread = 0

\* ------------------------------------------------------ frame processing
\* The state one run of the read loop works on: the React state of the hook
\* and the loop's currentEvent.  The setters are only ever called with
\* values or functional updates, so applying them in call order gives the
\* state React renders after the run.  insightsSet records a call of
\* setInsights with a freshly parsed object; frames collects the pairs
\* dispatched.
LoopState(ce) ==
    [insights |-> insights, isStreaming |-> isStreaming, progress |-> progress,
     error |-> error, updates |-> updates, currentEvent |-> ce,
     warned |-> warned, insightsSet |-> FALSE, frames |-> frames]

Update(e, d) == [event |-> e, data |-> d]

\* JSON.parse(parsed.meta.final_answer)
NestedJsonOk(txt) == txt \in {"json:R1", "json:R2"}
NestedJson(txt) == IF txt = "json:R1" THEN R1 ELSE R2

\* a catch that turns a malformed line into a stream error
WarnFatal(st) ==
    [st EXCEPT !.warned = @ + 1,
               !.error = Some("Failed to parse SSE data"),
               !.isStreaming = FALSE]

\* lines 155-157: the catch of the try around one data: line
Warn(st) == [st EXCEPT !.warned = @ + 1]

\* the final answer is taken only from an event in the complete phase
ApplyProgressCompleteOnly(st, p) ==
    LET s1 == [st EXCEPT !.progress = Some(p),
                         !.updates = Append(@, Update("agent_event", p))]
        s2 == IF p.phase = "complete" /\ p.has_final_answer /\ p.final_answer # None
              THEN [s1 EXCEPT !.insights = p.final_answer, !.insightsSet = TRUE,
                              !.isStreaming = FALSE,
                              !.updates = Append(@, Update("final", p.final_answer[1]))]
              ELSE s1
        s3 == IF p.phase = "error"
              THEN [s2 EXCEPT !.error = Some(IF p.message # "" THEN p.message
                                             ELSE "Error during insight generation"),
                              !.isStreaming = FALSE]
              ELSE s2
    IN s3

\* AgentPhase in the order of the pipeline; error is outside the order.
PhaseOrder == <<"initializing", "data_fetching", "insight_pipeline",
                "streaming_collector", "composition", "validation", "complete">>
PhaseRank(ph) ==
    IF \E i \in DOMAIN PhaseOrder : PhaseOrder[i] = ph
    THEN CHOOSE i \in DOMAIN PhaseOrder : PhaseOrder[i] = ph
    ELSE 0

\* a handler that ignores a Progress event of an earlier phase
ApplyProgressForwardOnly(st, p) ==
    IF st.progress # None /\ PhaseRank(p.phase) # 0
          /\ PhaseRank(p.phase) < PhaseRank(st.progress[1].phase)
    THEN st
    ELSE LET s1 == [st EXCEPT !.progress = Some(p),
                              !.updates = Append(@, Update("agent_event", p))]
             s2 == IF p.has_final_answer /\ p.final_answer # None
                   THEN [s1 EXCEPT !.insights = p.final_answer, !.insightsSet = TRUE,
                                   !.isStreaming = FALSE,
                                   !.updates = Append(@, Update("final", p.final_answer[1]))]
                   ELSE s1
             s3 == IF p.phase = "error"
                   THEN [s2 EXCEPT !.error = Some(IF p.message # "" THEN p.message
                                                  ELSE "Error during insight generation"),
                                   !.isStreaming = FALSE]
                   ELSE s2
         IN s3

\* lines 107-124: an agent_event with phase and progress_percent
ApplyProgress(st, p) ==
    LET s1 == [st EXCEPT !.progress = Some(p),
                         !.updates = Append(@, Update("agent_event", p))]
        s2 == IF p.has_final_answer /\ p.final_answer # None
              THEN [s1 EXCEPT !.insights = p.final_answer, !.insightsSet = TRUE,
                              !.isStreaming = FALSE,
                              !.updates = Append(@, Update("final", p.final_answer[1]))]
              ELSE s1
        s3 == IF p.phase = "error"
              THEN [s2 EXCEPT !.error = Some(IF p.message # "" THEN p.message
                                             ELSE "Error during insight generation"),
                              !.isStreaming = FALSE]
              ELSE s2
    IN s3

\* a validator event whose nested answer does not parse is warned about
\* and skipped
ApplyValidatorSkipsBad(st, p) ==
    IF NestedJsonOk(p.meta_final_answer)
    THEN [st EXCEPT !.insights = Some(NestedJson(p.meta_final_answer)), !.insightsSet = TRUE,
                    !.isStreaming = FALSE,
                    !.updates = Append(@, Update("final", NestedJson(p.meta_final_answer)))]
    ELSE Warn(st)

\* lines 128-137: the legacy validator event
ApplyValidator(st, p) ==
    IF NestedJsonOk(p.meta_final_answer)
    THEN [st EXCEPT !.insights = Some(NestedJson(p.meta_final_answer)), !.insightsSet = TRUE,
                    !.isStreaming = FALSE,
                    !.updates = Append(@, Update("final", NestedJson(p.meta_final_answer)))]
    ELSE [st EXCEPT !.error = Some("Failed to parse final insights"),
                    !.isStreaming = FALSE]

\* lines 104-142: currentEvent === 'agent_event'
ApplyAgentEvent(st, p) ==
    IF p.json = "null" THEN Warn(st)        \* parsed.phase throws
    ELSE IF p.phase # "" /\ p.progress_percent # "undefined" THEN ApplyProgress(st, p)
    ELSE IF p.node = "validator" /\ p.status = "result" /\ p.meta_final_answer # ""
    THEN ApplyValidator(st, p)
    ELSE IF p.summary # "" THEN
        [st EXCEPT !.updates = Append(@, Update("agent_event", p))]
    ELSE st

\* an error event that replaces the log by its own entry
ApplyErrorEventOnlyEntry(st, p) ==
    [st EXCEPT !.error = Some(IF p.json = "object" /\ p.message # "" THEN p.message
                              ELSE "Unknown error from stream"),
               !.isStreaming = FALSE,
               !.updates = <<Update("error", p)>>]

\* lines 143-146: currentEvent === 'error'
ApplyErrorEvent(st, p) ==
    [st EXCEPT !.error = Some(IF p.json = "object" /\ p.message # "" THEN p.message
                              ELSE "Unknown error from stream"),
               !.isStreaming = FALSE,
               !.updates = Append(@, Update("error", p))]

\* a fallback that stores the result and forgets to end streaming
ApplyFallbackKeepsStreaming(st, p) ==
    IF p.json = "object" /\ p.version # "" /\ p.insights # ""
    THEN [st EXCEPT !.insights = Some(p), !.insightsSet = TRUE,
                    !.updates = Append(@, Update(IF st.currentEvent # None
                                                 THEN st.currentEvent[1]
                                                 ELSE "message", p))]
    ELSE st

\* lines 147-154: any other event type, or none
ApplyFallback(st, p) ==
    IF p.json = "object" /\ p.version # "" /\ p.insights # ""
    THEN [st EXCEPT !.insights = Some(p), !.insightsSet = TRUE,
                    !.isStreaming = FALSE,
                    !.updates = Append(@, Update(IF st.currentEvent # None
                                                 THEN st.currentEvent[1]
                                                 ELSE "message", p))]
    ELSE st

\* lines 98-158: one data: line
ApplyData(st, p) ==
    LET s0 == [st EXCEPT !.frames = Append(@, [event |-> st.currentEvent, data |-> p])]
    IN IF p.json = "bad" THEN Warn(s0)      \* JSON.parse throws
       ELSE IF s0.currentEvent = Some("agent_event") THEN ApplyAgentEvent(s0, p)
       ELSE IF s0.currentEvent = Some("error") THEN ApplyErrorEvent(s0, p)
       ELSE ApplyFallback(s0, p)

\* a loop in which a blank line does not end the record
ProcessLineStickyEvent(st, line) ==
    IF line.kind = "event" THEN [st EXCEPT !.currentEvent = Some(line.name)]
    ELSE IF line.kind = "data" THEN ApplyData(st, line.payload)
    ELSE st

\* lines 85-159: one line of the chunk
ProcessLine(st, line) ==
    IF line.kind = "blank" THEN [st EXCEPT !.currentEvent = None]
    ELSE IF line.kind = "event" THEN [st EXCEPT !.currentEvent = Some(line.name)]
    ELSE IF line.kind = "data" THEN ApplyData(st, line.payload)
    ELSE st

RECURSIVE ProcessLines(_, _)
ProcessLines(st, lines) ==
    IF lines = <<>> THEN st
    ELSE ProcessLines(ProcessLine(st, Head(lines)), Tail(lines))

\* ------------------------------------------------------------ the session
\* Sessions whose promise chain is rejected and whose catch handler has not
\* run yet.
Pending == {s \in Sessions : pc[s] = "rejected"}

\* No handler is queued: the state in which the browser delivers the next
\* network event.
Drained == Pending = {}

\* Only rejections queued by abort() are outstanding: the state in which
\* code that calls startStream or unmounts can be running.
OnlyAbortsPending == \A s \in Pending : err[s] = AbortError

\* cleanup() that forgets to abort the controller it drops
CleanupNoAbort ==
    [pc |-> pc, err |-> err, aborted |-> aborted, inflight |-> inflight,
     currentEvent |-> currentEvent, abortControllerRef |-> 0,
     isStreaming |-> FALSE]

\* lines 24-30: cleanup().  abort() rejects the pending fetch or the pending
\* reader.read() of the session with an AbortError and drops what the
\* transport had in flight; on a settled chain it does nothing.  The loop
\* variables of a read loop that has ended are gone.
Cleanup ==
    LET s == abortControllerRef
        live == s # 0 /\ pc[s] \in {"fetching", "reading"}
    IN [pc |-> IF live THEN [pc EXCEPT ![s] = "rejected"] ELSE pc,
        err |-> IF live THEN [err EXCEPT ![s] = AbortError] ELSE err,
        aborted |-> IF s # 0 THEN [aborted EXCEPT ![s] = TRUE] ELSE aborted,
        inflight |-> IF s # 0 THEN [inflight EXCEPT ![s] = <<>>] ELSE inflight,
        currentEvent |-> IF s # 0 THEN [currentEvent EXCEPT ![s] = None] ELSE currentEvent,
        abortControllerRef |-> 0,
        isStreaming |-> FALSE]

\* lines 32-57: startStream up to the fetch call
StartStreamCall ==
    /\ mounted
    /\ started < MaxSessions
    /\ OnlyAbortsPending
    /\ LET c == Cleanup
           n == started + 1
       IN /\ error' = None
          /\ progress' = None
          /\ isStreaming' = TRUE
          /\ updates' = <<>>
          /\ abortControllerRef' = n
          /\ pc' = [c.pc EXCEPT ![n] = "fetching"]
          /\ err' = c.err
          /\ aborted' = c.aborted
          /\ inflight' = c.inflight
          /\ started' = n
          /\ currentEvent' = c.currentEvent
    /\ UNCHANGED <<insights, warned, insightsChanged, sent, mounted>>

\* lines 179-184: the unmount effect
Unmount ==
    /\ mounted
    /\ OnlyAbortsPending
    /\ LET c == Cleanup
       IN /\ isStreaming' = c.isStreaming
          /\ abortControllerRef' = c.abortControllerRef
          /\ pc' = c.pc
          /\ err' = c.err
          /\ aborted' = c.aborted
          /\ inflight' = c.inflight
          /\ currentEvent' = c.currentEvent
    /\ mounted' = FALSE
    /\ UNCHANGED <<auxVars, bannerVars, insights, progress, error, updates, warned, insightsChanged, started, sent>>

\* lines 58-71: the then-handler up to the first reader.read()
ResponseOk(s) ==
    /\ pc[s] = "fetching"
    /\ Drained
    /\ pc' = [pc EXCEPT ![s] = "reading"]
    /\ currentEvent' = [currentEvent EXCEPT ![s] = None]
    /\ UNCHANGED <<auxVars, bannerVars, hookState, abortControllerRef, aborted, err, inflight,
                   warned, insightsChanged, started, sent, mounted>>

\* The then-handler throws (lines 59-61, 66-68) or fetch itself rejects.
FetchFailures == {ErrHttp, ErrNoReader, ErrFetch}

ResponseFails(s, e) ==
    /\ pc[s] = "fetching"
    /\ Drained
    /\ pc' = [pc EXCEPT ![s] = "rejected"]
    /\ err' = [err EXCEPT ![s] = e]
    /\ UNCHANGED <<auxVars, bannerVars, hookState, abortControllerRef, aborted, currentEvent,
                   inflight, warned, insightsChanged, started, sent, mounted>>

\* The server writes one more line to the response body.
ServerSend(s, line) ==
    /\ pc[s] = "reading"
    /\ sent < MaxLines
    /\ Len(inflight[s]) < MaxChunk
    /\ inflight' = [inflight EXCEPT ![s] = Append(@, line)]
    /\ sent' = sent + 1
    /\ UNCHANGED <<auxVars, bannerVars, hookState, abortControllerRef, pc, aborted, err,
                   currentEvent, warned, insightsChanged, mounted, started>>

\* lines 73-160: reader.read() returns a chunk, the loop body runs on its
\* lines and the loop awaits the next read
ReadChunk(s) ==
    /\ pc[s] = "reading"
    /\ Drained
    /\ inflight[s] # <<>>
    /\ LET st == ProcessLines(LoopState(currentEvent[s]), inflight[s])
       IN /\ insights' = st.insights
          /\ isStreaming' = st.isStreaming
          /\ progress' = st.progress
          /\ error' = st.error
          /\ updates' = st.updates
          /\ currentEvent' = [currentEvent EXCEPT ![s] = st.currentEvent]
          /\ warned' = st.warned
          /\ insightsChanged' = (insightsChanged \/ st.insightsSet)
    /\ inflight' = [inflight EXCEPT ![s] = <<>>]
    /\ UNCHANGED <<auxVars, bannerVars, abortControllerRef, pc, aborted, err, started, sent, mounted>>

\* an end of stream that is reported as a failure
ReadDoneFlagsEof(s) ==
    /\ pc[s] = "reading"
    /\ Drained
    /\ inflight[s] = <<>>
    /\ isStreaming' = FALSE
    /\ error' = Some("Stream ended unexpectedly")
    /\ pc' = [pc EXCEPT ![s] = "done"]
    /\ UNCHANGED <<auxVars, bannerVars, insights, progress, updates, abortControllerRef,
                   aborted, err, currentEvent, inflight, warned, insightsChanged,
                   started, sent, mounted>>

\* lines 76-79: reader.read() returns done
ReadDone(s) ==
    /\ pc[s] = "reading"
    /\ Drained
    /\ inflight[s] = <<>>
    /\ isStreaming' = FALSE
    /\ pc' = [pc EXCEPT ![s] = "done"]
    /\ UNCHANGED <<auxVars, bannerVars, insights, progress, error, updates, abortControllerRef,
                   aborted, err, currentEvent, inflight, warned, insightsChanged, started, sent, mounted>>

\* line 74: reader.read() rejects because the connection dropped
ReadFails(s) ==
    /\ pc[s] = "reading"
    /\ Drained
    /\ pc' = [pc EXCEPT ![s] = "rejected"]
    /\ err' = [err EXCEPT ![s] = ErrNetwork]
    /\ inflight' = [inflight EXCEPT ![s] = <<>>]
    /\ currentEvent' = [currentEvent EXCEPT ![s] = None]
    /\ UNCHANGED <<auxVars, bannerVars, hookState, abortControllerRef, aborted,
                   warned, insightsChanged, started, sent, mounted>>

\* a catch handler that only logs
CatchHandlerLogOnly(e) == [error |-> error, isStreaming |-> FALSE]

\* a catch handler that reports every rejection, aborts included
CatchHandlerNoAbortCheck(e) ==
    [error |-> Some(IF e # "" THEN e ELSE "Failed to stream insights"),
     isStreaming |-> FALSE]

\* lines 162-170: what the catch handler leaves in error and isStreaming
CatchHandler(e) ==
    [error |-> IF e = AbortError THEN error
               ELSE Some(IF e # "" THEN e ELSE "Failed to stream insights"),
     isStreaming |-> FALSE]

Catch(s) ==
    /\ pc[s] = "rejected"
    /\ LET h == CatchHandler(err[s])
       IN /\ error' = h.error
          /\ isStreaming' = h.isStreaming
    /\ pc' = [pc EXCEPT ![s] = "done"]
    /\ UNCHANGED <<auxVars, bannerVars, insights, progress, updates, abortControllerRef, aborted,
                   err, currentEvent, inflight, warned, insightsChanged, started, sent, mounted>>

StartStream == StartStreamCall /\ UNCHANGED <<auxVars, bannerVars>>

Next ==
    \/ StartStream
    \/ Unmount
    \/ \E s \in Sessions : ResponseOk(s)
    \/ \E s \in Sessions, e \in FetchFailures : ResponseFails(s, e)
    \/ \E s \in Sessions, line \in Lines : ServerSend(s, line)
    \/ \E s \in Sessions : ReadChunk(s)
    \/ \E s \in Sessions : ReadDone(s)
    \/ \E s \in Sessions : ReadFails(s)
    \/ \E s \in Sessions : Catch(s)

Spec == Init /\ [][Next]_vars

\* ------------------------------------------------------------- the banner
\* What localStorage holds under CACHE_KEY: the JSON text of
\* {data, timestamp}; parses says whether the try block of lines 590-598
\* gets through JSON.parse and parsed.timestamp without throwing.
CacheEntry(d, t) == [parses |-> TRUE, data |-> d, timestamp |-> t]

\* A text under CACHE_KEY that is not the JSON of an object.
CorruptEntry == [parses |-> FALSE, data |-> Obj, timestamp |-> 0]

\* What the browser holds for the site when the page is first opened in a
\* behaviour: nothing (first visit), or the thread id of an earlier visit
\* with nothing, a result or an unreadable text under CACHE_KEY.
StoredAtLoad ==
    {[thread |-> 0, cache |-> None, owner |-> 0],
     [thread |-> 1, cache |-> None, owner |-> 0],
     [thread |-> 1, cache |-> Some(CacheEntry(R2, 0)), owner |-> 1],
     [thread |-> 1, cache |-> Some(CorruptEntry), owner |-> 0]}

InitBanner ==
    /\ InitHook
    /\ InitAux
    /\ now = 0
    /\ threadId = None
    /\ cachedInsights = None
    /\ loadDeps = None
    /\ consoleErrors = 0
    /\ \E st \in StoredAtLoad :
          /\ lsThreadId = st.thread
          /\ lsCache = st.cache
          /\ cacheThread = st.owner

\* an entry that is still fresh at exactly CACHE_DURATION
CacheFreshInclusive(entry, t) == t - entry.timestamp <= CACHE_DURATION

\* client.ts line 593: the entry is still fresh at time t
CacheFresh(entry, t) == t - entry.timestamp < CACHE_DURATION

\* a lookup that never finds anything
CacheReadAlwaysMiss(blob, t) == [hit |-> FALSE, threw |-> FALSE, data |-> Obj, store |-> None]

\* a lookup that leaves an unreadable text in storage
CacheReadKeepsCorrupt(blob, t) ==
    IF blob = None THEN [hit |-> FALSE, threw |-> FALSE, data |-> Obj, store |-> None]
    ELSE IF ~blob[1].parses
    THEN [hit |-> FALSE, threw |-> TRUE, data |-> Obj, store |-> blob]
    ELSE IF CacheFresh(blob[1], t)
    THEN [hit |-> TRUE, threw |-> FALSE, data |-> blob[1].data, store |-> blob]
    ELSE [hit |-> FALSE, threw |-> FALSE, data |-> Obj, store |-> None]

\* client.ts lines 588-603: the lookup of the load effect at time t.  hit:
\* the effect shows data and returns; threw: the catch of lines 599-602
\* ran; store: what is under CACHE_KEY afterwards (removeItem in the else
\* branch and in the catch).
CacheRead(blob, t) ==
    IF blob = None THEN [hit |-> FALSE, threw |-> FALSE, data |-> Obj, store |-> None]
    ELSE IF ~blob[1].parses
    THEN [hit |-> FALSE, threw |-> TRUE, data |-> Obj, store |-> None]
    ELSE IF CacheFresh(blob[1], t)
    THEN [hit |-> TRUE, threw |-> FALSE, data |-> blob[1].data, store |-> blob]
    ELSE [hit |-> FALSE, threw |-> FALSE, data |-> Obj, store |-> None]

\* client.ts lines 566-571: genThreadId, a value never used before
GenThreadId == lsThreadId + 1

\* client.ts lines 573-583: initialize or load the thread id (first render)
ThreadInitEffect ==
    /\ mounted
    /\ threadId = None
    /\ IF lsThreadId # 0
       THEN /\ threadId' = Some(lsThreadId)
            /\ UNCHANGED lsThreadId
       ELSE /\ lsThreadId' = GenThreadId
            /\ threadId' = Some(GenThreadId)
    /\ UNCHANGED <<auxVars, hookVars, now, cachedInsights, lsCache, loadDeps, consoleErrors,
                   cacheThread>>

\* client.ts lines 585-606: runs after a render in which threadId changed;
\* looks the cache up and starts a stream when it has nothing to show
CacheLoadEffect ==
    /\ threadId # loadDeps
    /\ loadDeps' = threadId
    /\ IF threadId = None
       THEN UNCHANGED <<hookVars, cachedInsights, lsCache, consoleErrors, cacheThread>>
       ELSE LET r == CacheRead(lsCache, now)
            IN IF r.hit
               THEN /\ cachedInsights' = Some(r.data)
                    /\ UNCHANGED <<hookVars, lsCache, consoleErrors, cacheThread>>
               ELSE /\ lsCache' = r.store
                    /\ consoleErrors' = IF r.threw THEN consoleErrors + 1
                                        ELSE consoleErrors
                    /\ cacheThread' = IF r.store = None THEN 0 ELSE cacheThread
                    /\ StartStreamCall
                    /\ UNCHANGED cachedInsights
    /\ UNCHANGED <<auxVars, now, threadId, lsThreadId>>

\* an entry that carries no time
WrittenEntryNoTime == CacheEntry(insights[1], 0)

\* client.ts lines 611-614: cacheData
WrittenEntry == CacheEntry(insights[1], now)

\* client.ts lines 608-618: runs after a render in which insights changed
CacheWriteEffect ==
    /\ insightsChanged
    /\ insightsChanged' = FALSE
    /\ IF insights # None
       THEN /\ lsCache' = Some(WrittenEntry)
            /\ cacheThread' = IF threadId = None THEN 0 ELSE threadId[1]
            /\ cachedInsights' = insights
       ELSE UNCHANGED <<lsCache, cacheThread, cachedInsights>>
    /\ UNCHANGED <<auxVars, hookState, abortControllerRef, pc, aborted, err, currentEvent,
                   inflight, warned, started, sent, mounted,
                   now, threadId, lsThreadId, loadDeps, consoleErrors>>

\* The effects of the last render have run.  React runs them right after
\* the render, before it handles a click.
EffectsFlushed == loadDeps = threadId /\ ~insightsChanged

\* Date.now() advances: minutes pass only while no effect is waiting.
Tick(d) ==
    /\ EffectsFlushed
    /\ now + d <= MaxNow
    /\ now' = now + d
    /\ UNCHANGED <<auxVars, hookVars, threadId, cachedInsights, lsThreadId, lsCache,
                   loadDeps, consoleErrors, cacheThread>>

\* The page is loaded again: the component state starts from its initial
\* values (client.ts lines 560-564, hook lines 17-22), the sessions of the
\* old page are gone, localStorage is kept.
Reload ==
    /\ threadId # None
    /\ OnlyAbortsPending
    /\ insights' = None
    /\ isStreaming' = FALSE
    /\ progress' = None
    /\ error' = None
    /\ updates' = <<>>
    /\ abortControllerRef' = 0
    /\ pc' = [s \in Sessions |-> IF s <= started THEN "done" ELSE "idle"]
    /\ inflight' = [s \in Sessions |-> <<>>]
    /\ currentEvent' = [s \in Sessions |-> None]
    /\ threadId' = None
    /\ cachedInsights' = None
    /\ loadDeps' = None
    /\ insightsChanged' = FALSE
    /\ warned' = 0
    /\ consoleErrors' = 0
    /\ UNCHANGED <<auxVars, aborted, err, started, sent, mounted, now, lsThreadId, lsCache,
                   cacheThread>>

\* a refresh that leaves the stored result in place
RefreshStoreKept == lsCache

\* client.ts line 630: what handleRefresh leaves under CACHE_KEY
RefreshStore == None

\* client.ts lines 625-636 and the effects of the render they cause.  The
\* handler rotates the thread id, empties the cache, clears the hook's
\* result (hook lines 173-177) and starts a stream with the new id; the
\* render then runs the load effect for the new threadId (lines 585-606),
\* which on a miss calls startStream again, aborting the session the
\* handler has just started; the write effect sees insights null.
HandleRefresh ==
    /\ mounted
    /\ threadId # None
    /\ EffectsFlushed
    /\ OnlyAbortsPending
    /\ LET newId == GenThreadId
           c == Cleanup
           n == started + 1
           r == CacheRead(RefreshStore, now)
       IN /\ lsThreadId' = newId
          /\ threadId' = Some(newId)
          /\ loadDeps' = Some(newId)
          /\ insights' = None
          /\ progress' = None
          /\ error' = None
          /\ updates' = <<>>
          /\ isStreaming' = TRUE
          /\ insightsChanged' = FALSE
          /\ lsCache' = r.store
          /\ cacheThread' = IF r.store = None THEN 0 ELSE cacheThread
          /\ consoleErrors' = IF r.threw THEN consoleErrors + 1 ELSE consoleErrors
          /\ inflight' = c.inflight
          /\ currentEvent' = c.currentEvent
          /\ IF r.hit
             THEN /\ n <= MaxSessions
                  /\ cachedInsights' = Some(r.data)
                  /\ pc' = [c.pc EXCEPT ![n] = "fetching"]
                  /\ err' = c.err
                  /\ aborted' = c.aborted
                  /\ abortControllerRef' = n
                  /\ started' = n
             ELSE /\ n + 1 <= MaxSessions
                  /\ cachedInsights' = None
                  /\ pc' = [c.pc EXCEPT ![n] = "rejected", ![n + 1] = "fetching"]
                  /\ err' = [c.err EXCEPT ![n] = AbortError]
                  /\ aborted' = [c.aborted EXCEPT ![n] = TRUE]
                  /\ abortControllerRef' = n + 1
                  /\ started' = n + 1
    /\ UNCHANGED <<auxVars, warned, sent, mounted, now>>

\* The lines the insights server sends to the banner in the model.
BannerLines == {EventLine("agent_event"), DataLine(Complete),
                DataLine(ProgFinal), DataLine(ErrPhase)}

NextBanner ==
    \/ ThreadInitEffect
    \/ CacheLoadEffect
    \/ CacheWriteEffect
    \/ \E d \in TickSteps : Tick(d)
    \/ Reload
    \/ HandleRefresh
    \/ \E s \in Sessions : ResponseOk(s)
    \/ \E s \in Sessions, e \in FetchFailures : ResponseFails(s, e)
    \/ \E s \in Sessions, line \in BannerLines : ServerSend(s, line)
    \/ \E s \in Sessions : ReadChunk(s)
    \/ \E s \in Sessions : ReadDone(s)
    \/ \E s \in Sessions : ReadFails(s)
    \/ \E s \in Sessions : Catch(s)

SpecBanner == InitBanner /\ [][NextBanner]_vars

\* ------------------------------------------------- one session, any schema
\* One session that is reading, fed with frames of every schema the loop
\* knows and some it does not.
FramePayloads == {Prog, Complete, R1, ProgTextPercent, PhaseOnly, ValidatorOk,
                  ValidatorBad, SummaryOnly, ActionOnly, ErrFinal}

\* "progress" is an event type of the older protocol that the loop no
\* longer recognizes.
FrameLines == {BlankLine, EventLine("agent_event"), EventLine("progress")}
                 \cup {DataLine(p) : p \in FramePayloads}

\* Session 1 has been started and its response has arrived (the state after
\* StartStream and ResponseOk(1)).
InitFrames ==
    /\ insights = None
    /\ isStreaming = TRUE
    /\ progress = None
    /\ error = None
    /\ updates = <<>>
    /\ abortControllerRef = 1
    /\ pc = [s \in Sessions |-> IF s = 1 THEN "reading" ELSE "idle"]
    /\ aborted = [s \in Sessions |-> FALSE]
    /\ err = [s \in Sessions |-> ""]
    /\ currentEvent = [s \in Sessions |-> None]
    /\ inflight = [s \in Sessions |-> <<>>]
    /\ warned = 0
    /\ insightsChanged = FALSE
    /\ started = 1
    /\ sent = 0
    /\ mounted = TRUE
    /\ InitAux
    /\ now = 0
    /\ threadId = None
    /\ cachedInsights = None
    /\ lsThreadId = 0
    /\ lsCache = None
    /\ loadDeps = None
    /\ consoleErrors = 0
    /\ cacheThread = 0

NextFrames ==
    \/ \E line \in FrameLines : ServerSend(1, line)
    \/ ReadChunk(1)
    \/ ReadDone(1)

SpecFrames == InitFrames /\ [][NextFrames]_vars

\* ------------------------------------------------------- the body as text
\* The response body as the characters the decoder yields.  The JSON text
\* of a payload is written with three characters.
NL == "\n"
EventPrefix == <<"e", "v", "e", "n", "t", ":">>
DataPrefix == <<"d", "a", "t", "a", ":">>
AgentEventName == <<"a", "g", "e", "n", "t", "_", "e", "v", "e", "n", "t">>
JsonProg == <<"{", "P", "}">>
JsonFinal == <<"{", "F", "}">>

\* The characters String.prototype.trim removes inside a line.
Whitespace == {" ", "\r", "\t"}

RECURSIVE TrimLeft(_)
TrimLeft(s) == IF s # <<>> /\ Head(s) \in Whitespace THEN TrimLeft(Tail(s)) ELSE s

RECURSIVE TrimRight(_)
TrimRight(s) ==
    IF s # <<>> /\ s[Len(s)] \in Whitespace
    THEN TrimRight(SubSeq(s, 1, Len(s) - 1)) ELSE s

\* line.trim()
Trim(s) == TrimRight(TrimLeft(s))

\* s.startsWith(p)
StartsWith(s, p) == Len(s) >= Len(p) /\ SubSeq(s, 1, Len(p)) = p

\* s.substring(n)
Substring(s, n) == SubSeq(s, n + 1, Len(s))

\* buffer.split('\n'): the pieces between newlines, the last one being what
\* follows the last newline (empty when the text ends with a newline)
RECURSIVE SplitFrom(_, _, _)
SplitFrom(s, cur, acc) ==
    IF s = <<>> THEN Append(acc, cur)
    ELSE IF Head(s) = NL THEN SplitFrom(Tail(s), <<>>, Append(acc, cur))
    ELSE SplitFrom(Tail(s), Append(cur, Head(s)), acc)

SplitLines(s) == SplitFrom(s, <<>>, <<>>)

\* The event name a line carries, as the string currentEvent is compared
\* with at lines 104 and 143.
NameOf(chars) ==
    IF chars = AgentEventName THEN "agent_event"
    ELSE IF chars = <<"e", "r", "r", "o", "r">> THEN "error"
    ELSE IF chars = <<"x">> THEN "x"
    ELSE "?"

\* JSON.parse(data) at line 99
JsonParse(chars) ==
    IF chars = JsonProg THEN Prog
    ELSE IF chars = JsonFinal THEN Complete
    ELSE BadJson

\* A line that is neither blank nor an event: nor a data: line.
OtherLine == [kind |-> "other", name |-> "", payload |-> Obj]

\* lines 86-99: what the loop takes a line of text for
Classify(line) ==
    LET trimmed == Trim(line)
    IN IF Len(trimmed) = 0 THEN BlankLine
       ELSE IF StartsWith(trimmed, EventPrefix)
       THEN EventLine(NameOf(Trim(Substring(trimmed, 6))))
       ELSE IF StartsWith(trimmed, DataPrefix)
       THEN DataLine(JsonParse(Trim(Substring(trimmed, 5))))
       ELSE OtherLine

ClassifyAll(ls) == [i \in DOMAIN ls |-> Classify(ls[i])]

\* a loop that splits each chunk on its own and keeps no buffer
FeedChunkNoBuffer(st, buf, chunk) ==
    LET parts == SplitLines(chunk)
        last == parts[Len(parts)]
        lines == SubSeq(parts, 1, Len(parts) - 1)
                    \o (IF last = <<>> THEN <<>> ELSE <<last>>)
    IN [loop |-> ProcessLines(st, ClassifyAll(lines)), buffer |-> <<>>]

\* lines 81-159: one chunk is appended to the buffer, the complete lines
\* are processed and the rest stays in the buffer
FeedChunk(st, buf, chunk) ==
    LET parts == SplitLines(buf \o chunk)
        lines == SubSeq(parts, 1, Len(parts) - 1)
    IN [loop |-> ProcessLines(st, ClassifyAll(lines)),
        buffer |-> parts[Len(parts)]]

\* The lines a body is made of in the model.
TextLines ==
    {<<NL>>,
     EventPrefix \o AgentEventName \o <<NL>>,
     EventPrefix \o <<" ", "x", "\r", NL>>,
     DataPrefix \o JsonProg \o <<NL>>,
     DataPrefix \o <<" ">> \o JsonFinal \o <<NL>>}

\* What follows the last newline of a body: nothing, or a line the server
\* did not terminate.
Tails == {<<>>, DataPrefix \o JsonFinal}

RECURSIVE TextsOf(_)
TextsOf(n) ==
    IF n = 0 THEN {<<>>}
    ELSE {l \o t : l \in TextLines, t \in TextsOf(n - 1)}

Texts == {t \o tail : t \in UNION {TextsOf(n) : n \in 0..MaxTextLines},
                      tail \in Tails}

\* Session 1 has been started and its response has arrived (the state after
\* StartStream and ResponseOk(1)); the server will send text.
InitWire ==
    /\ insights = None
    /\ isStreaming = TRUE
    /\ progress = None
    /\ error = None
    /\ updates = <<>>
    /\ abortControllerRef = 1
    /\ pc = [s \in Sessions |-> IF s = 1 THEN "reading" ELSE "idle"]
    /\ aborted = [s \in Sessions |-> FALSE]
    /\ err = [s \in Sessions |-> ""]
    /\ currentEvent = [s \in Sessions |-> None]
    /\ inflight = [s \in Sessions |-> <<>>]
    /\ warned = 0
    /\ insightsChanged = FALSE
    /\ started = 1
    /\ sent = 0
    /\ mounted = TRUE
    /\ now = 0
    /\ threadId = None
    /\ cachedInsights = None
    /\ lsThreadId = 0
    /\ lsCache = None
    /\ loadDeps = None
    /\ consoleErrors = 0
    /\ cacheThread = 0
    /\ text \in Texts
    /\ pos = 0
    /\ buffer = <<>>
    /\ frames = <<>>
    /\ pipelineStatus = <<>>

\* lines 73-160: reader.read() returns the next k characters of the body
WireChunk(k) ==
    /\ pc[1] = "reading"
    /\ Drained
    /\ pos + k <= Len(text)
    /\ \E fc \in {FeedChunk(LoopState(currentEvent[1]), buffer,
                              SubSeq(text, pos + 1, pos + k))} :
       LET st == fc.loop
       IN /\ insights' = st.insights
          /\ isStreaming' = st.isStreaming
          /\ progress' = st.progress
          /\ error' = st.error
          /\ updates' = st.updates
          /\ currentEvent' = [currentEvent EXCEPT ![1] = st.currentEvent]
          /\ warned' = st.warned
          /\ insightsChanged' = (insightsChanged \/ st.insightsSet)
          /\ frames' = st.frames
          /\ buffer' = fc.buffer
    /\ pos' = pos + k
    /\ UNCHANGED <<bannerVars, trackerVars, text, abortControllerRef, pc, aborted,
                   err, inflight, started, sent, mounted>>

\* lines 76-79: the body has been read to its end
WireDone ==
    /\ pos = Len(text)
    /\ ReadDone(1)

NextWire ==
    \/ \E k \in 1..MaxTextLen : WireChunk(k)
    \/ WireDone

SpecWire == InitWire /\ [][NextWire]_vars

\* ----------------------------------------------------- the pipeline tracker
\* The hook that returns pipelineStatus to the banner (client.ts line 563)
\* is not among the sources; the updates of the map follow section 4.3 of
\* the specification.  The display of the map is PipelineTracker.
AllTickers == <<"AAPL", "MSFT", "GOOGL", "TSLA">>
Tickers == {AllTickers[i] : i \in 1..MaxTickers}

\* PipelineStatus (types/api.ts)
PipelineStatuses == {"cached", "accepted", "rejected", "skipped"}

\* One value of the map.  status "" is the null of PipelineItem: pending.
Entry(t, s, i, v) == [ticker |-> t, status |-> s, insight |-> i, verdict |-> v]

\* Map.prototype.has and Map.prototype.get on the entries
Has(m, t) == \E i \in DOMAIN m : m[i].ticker = t
IndexOf(m, t) == CHOOSE i \in DOMAIN m : m[i].ticker = t

\* Map.prototype.set: replaces the value in place or appends a new key
MapSet(m, e) ==
    IF Has(m, e.ticker) THEN [m EXCEPT ![IndexOf(m, e.ticker)] = e]
    ELSE Append(m, e)

\* a seeding that resets every listed ticker to pending
RECURSIVE ApplySeedOverwrites(_, _)
ApplySeedOverwrites(m, ts) ==
    IF ts = <<>> THEN m
    ELSE ApplySeedOverwrites(MapSet(m, Entry(Head(ts), "", None, None)), Tail(ts))

\* A Progress event in phase data_fetching with details.tickers: a pending
\* entry for every listed ticker that has none.
RECURSIVE ApplySeed(_, _)
ApplySeed(m, ts) ==
    IF ts = <<>> THEN m
    ELSE ApplySeed(IF Has(m, Head(ts)) THEN m
                   ELSE MapSet(m, Entry(Head(ts), "", None, None)),
                   Tail(ts))

\* A Progress event in phase insight_pipeline with details.ticker and
\* details.status: the status of the ticker is set, the entry is created
\* when there is none.
ApplyTickerProgress(m, t, s) ==
    IF Has(m, t) THEN MapSet(m, [m[IndexOf(m, t)] EXCEPT !.status = s])
    ELSE MapSet(m, Entry(t, s, None, None))

\* an insight_complete that only records the status
ApplyInsightCompleteStatusOnly(m, e) ==
    ApplyTickerProgress(m, e.ticker, e.status)

\* An insight_complete event (InsightCompleteEvent): status, insight and
\* verdict of the ticker are set.
ApplyInsightComplete(m, e) ==
    MapSet(m, Entry(e.ticker, e.status, e.insight, e.verdict))

\* a count that takes every entry but the processing ones for completed
RECURSIVE CompletedNotProcessing(_)
CompletedNotProcessing(items) ==
    IF items = <<>> THEN 0
    ELSE (IF Head(items).status # "processing" THEN 1 ELSE 0)
            + CompletedNotProcessing(Tail(items))

\* PipelineTracker lines 131-132:
\* items.filter(p => p.status && p.status !== 'processing').length
RECURSIVE Completed(_)
Completed(items) ==
    IF items = <<>> THEN 0
    ELSE (IF Head(items).status # "" /\ Head(items).status # "processing"
          THEN 1 ELSE 0) + Completed(Tail(items))

\* details.tickers of a data_fetching event: up to two tickers, possibly
\* the same one twice.
TickerLists == {<<>>} \cup {<<t>> : t \in Tickers}
                      \cup {<<t, u>> : t \in Tickers, u \in Tickers}

\* The insight_complete events the server sends in the model.
CompleteEvents ==
    {[ticker |-> t, status |-> s, insight |-> i, verdict |-> v] :
        t \in Tickers, s \in PipelineStatuses,
        i \in {None, Some("I")}, v \in {None, Some("REJECT")}}

SeedEvent(ts) ==
    /\ pipelineStatus' = ApplySeed(pipelineStatus, ts)
    /\ UNCHANGED <<hookVars, bannerVars, wireVars>>

TickerProgressEvent(t, s) ==
    /\ pipelineStatus' = ApplyTickerProgress(pipelineStatus, t, s)
    /\ UNCHANGED <<hookVars, bannerVars, wireVars>>

InsightCompleteEvent(e) ==
    /\ pipelineStatus' = ApplyInsightComplete(pipelineStatus, e)
    /\ UNCHANGED <<hookVars, bannerVars, wireVars>>

NextTracker ==
    \/ \E ts \in TickerLists : SeedEvent(ts)
    \/ \E t \in Tickers, s \in PipelineStatuses \cup {"processing"} :
          TickerProgressEvent(t, s)
    \/ \E e \in CompleteEvents : InsightCompleteEvent(e)

SpecTracker == Init /\ [][NextTracker]_vars

\* ================================================================ claims
\* A session is live while its fetch or its read is pending on a signal
\* that has not been aborted.
Live(s) == pc[s] \in {"fetching", "reading"} /\ ~aborted[s]

\* The step is the catch handler of session s.
CatchStep(s) == pc[s] = "rejected" /\ pc'[s] = "done"

\* The step is one run of the read loop of session s on a chunk.
ReadStep(s) == pc[s] = "reading" /\ pc'[s] = "reading"
               /\ inflight[s] # <<>> /\ inflight'[s] = <<>>

\* C1: at most one session is live, and it is the one the controller ref
\* points to: startStream aborts the previous session before it issues
\* the next request.
C1_AtMostOneLiveSession ==
    /\ Cardinality({s \in Sessions : Live(s)}) <= 1
    /\ \A s \in Sessions : Live(s) => abortControllerRef = s

\* A second session is reading after the first was aborted while pending.
C1_Witness ==
    \E s, t \in Sessions :
        /\ s # t
        /\ aborted[s] /\ err[s] = AbortError
        /\ pc[t] = "reading" /\ ~aborted[t]

C3_CancelledSessionIsSilent ==
    [][\A s \in Sessions :
          (aborted[s] /\ pc'[s] # pc[s]) => UNCHANGED hookState]_vars

\* The step reads a chunk whose only data line is its last line, with
\* payload p, dispatched with event type ce.
FrameRead(s, ce, p) ==
    /\ ReadStep(s)
    /\ \/ inflight[s] = <<DataLine(p)>> /\ currentEvent[s] = ce
       \/ ce # None /\ inflight[s] = <<EventLine(ce[1]), DataLine(p)>>
       \/ ce = None /\ inflight[s] = <<BlankLine, DataLine(p)>>

\* A current-schema Progress event.
IsProgress(p) == p.json = "object" /\ p.phase # "" /\ p.progress_percent # "undefined"

\* C4: a Progress event with has_final_answer and a final_answer sets
\* insights to the final_answer and ends streaming whatever its phase; with
\* has_final_answer but no final_answer it leaves insights alone and does
\* not end streaming (unless its phase is error).
C4_FinalAnswerCompletes ==
    [][\A s \in Sessions, p \in Payloads :
          FrameRead(s, Some("agent_event"), p) /\ IsProgress(p) /\ p.has_final_answer
              => IF p.final_answer # None
                 THEN insights' = p.final_answer /\ isStreaming' = FALSE
                 ELSE /\ insights' = insights
                      /\ p.phase # "error" => isStreaming' = isStreaming]_vars

\* The final answer of an insight_pipeline event has been captured.
C4_Witness ==
    /\ progress = Some(ProgFinal)
    /\ ProgFinal.phase = "insight_pipeline"
    /\ insights = ProgFinal.final_answer
    /\ isStreaming = FALSE
    /\ updates # <<>> /\ updates[Len(updates)] = Update("final", R2)

\* C5: an error event, or a Progress event in phase error, sets the error
\* to the server's message, ends streaming and stops the read of the
\* session.
C5_ErrorEventStopsSession ==
    [][\A s \in Sessions, p \in Payloads :
          /\ p.json = "object"
          /\ \/ FrameRead(s, Some("error"), p)
             \/ FrameRead(s, Some("agent_event"), p) /\ IsProgress(p) /\ p.phase = "error"
          => /\ error' # None
             /\ p.message # "" => error' = Some(p.message)
             /\ isStreaming' = FALSE
             /\ pc'[s] # "reading"]_vars

\* The current session has applied a terminal event: an error is set, or
\* the log holds a final or error entry.
TerminalReached ==
    \/ error # None
    \/ \E i \in DOMAIN updates : updates[i].event # "agent_event"

\* C6: after a terminal event no later frame of the same session changes
\* insights, progress, error or the log.
C6_TerminalIsFinal ==
    [][(/\ abortControllerRef # 0
        /\ pc[abortControllerRef] = "reading"
        /\ TerminalReached
        /\ abortControllerRef' = abortControllerRef)
          => UNCHANGED <<insights, progress, error, updates>>]_vars

\* The lines of a chunk without the data: lines whose payload is not JSON.
RECURSIVE WithoutMalformed(_)
WithoutMalformed(lines) ==
    IF lines = <<>> THEN <<>>
    ELSE IF Head(lines).kind = "data" /\ Head(lines).payload.json = "bad"
    THEN WithoutMalformed(Tail(lines))
    ELSE <<Head(lines)>> \o WithoutMalformed(Tail(lines))

\* C7: a run of the read loop leaves the state that the same chunk without
\* its malformed data: lines would have left, and the session keeps
\* reading.
C7_MalformedLineSkipped ==
    [][\A s \in Sessions :
          ReadStep(s) =>
              LET st == ProcessLines(LoopState(currentEvent[s]),
                                     WithoutMalformed(inflight[s]))
              IN /\ insights' = st.insights
                 /\ isStreaming' = st.isStreaming
                 /\ progress' = st.progress
                 /\ error' = st.error
                 /\ updates' = st.updates
                 /\ currentEvent'[s] = st.currentEvent
                 /\ pc'[s] = "reading"]_vars

\* One stream carried an event: line, a malformed data: line and a valid
\* agent_event frame: the frame is applied, the malformed line left no
\* trace but the warning, and the session is still streaming.
C7_Witness ==
    /\ warned = 1
    /\ sent = 3
    /\ updates = <<Update("agent_event", Prog)>>
    /\ progress = Some(Prog)
    /\ error = None
    /\ isStreaming = TRUE
    /\ started = 1 /\ pc[1] = "reading" /\ inflight[1] = <<>>

\* C8: a rejection that is not an abort sets the error to its message, ends
\* streaming and leaves insights alone; the failed session stays in that
\* state.
C8_TransportFailureIsError ==
    /\ [](\A s \in Sessions :
            (s = abortControllerRef /\ pc[s] = "done" /\ err[s] \notin {"", AbortError})
                => error = Some(err[s]) /\ isStreaming = FALSE)
    /\ [][\A s \in Sessions :
            CatchStep(s) /\ err[s] # AbortError
                => /\ error' # None
                   /\ isStreaming' = FALSE
                   /\ insights' = insights]_vars

\* The connection dropped in the middle of a stream.
C8_Witness ==
    \E s \in Sessions :
        /\ pc[s] = "done" /\ err[s] = ErrNetwork
        /\ error = Some(ErrNetwork)
        /\ isStreaming = FALSE
        /\ progress # None

\* C9: a frame without event type whose payload has version and insights,
\* and a complete-phase Progress event carrying a final answer, both leave
\* insights equal to the result carried, isStreaming false and error as it
\* was.
C9_LegacyFinalCompletes ==
    [][\A s \in Sessions, p \in Payloads :
          /\ (FrameRead(s, None, p) /\ p.json = "object"
                  /\ p.version # "" /\ p.insights # "")
                => insights' = Some(p) /\ isStreaming' = FALSE /\ error' = error
          /\ (FrameRead(s, Some("agent_event"), p) /\ IsProgress(p)
                  /\ p.phase = "complete" /\ p.has_final_answer /\ p.final_answer # None)
                => insights' = p.final_answer /\ isStreaming' = FALSE /\ error' = error]_vars

\* A bare legacy final has been applied.
C9_Witness ==
    /\ insights = Some(R1)
    /\ isStreaming = FALSE
    /\ error = None
    /\ updates = <<Update("message", R1)>>

\* The step is the cache lookup of the banner.
LoadStep == threadId # None /\ threadId # loadDeps /\ loadDeps' = threadId

\* The outcomes of a lookup: the stored data is shown and the entry stays,
\* or nothing is shown and the entry is gone.
LookupHit == cachedInsights' = Some(lsCache[1].data) /\ lsCache' = lsCache
             /\ started' = started
LookupMiss == cachedInsights' = cachedInsights /\ lsCache' = None

\* C10 as stated: a lookup hits when the age of the entry is at most
\* CACHE_DURATION and misses and evicts when it is greater.
C10_LookupHitsUpToTTL ==
    [][LoadStep /\ lsCache # None /\ lsCache[1].parses
          => IF now - lsCache[1].timestamp <= CACHE_DURATION
             THEN LookupHit ELSE LookupMiss]_vars

\* C10 amended: a lookup hits when the age of the entry is less than
\* CACHE_DURATION; at CACHE_DURATION or more it misses and evicts; a lookup
\* that finds no entry misses.
C10_LookupHitsBelowTTL ==
    [][LoadStep
          => IF lsCache = None THEN LookupMiss
             ELSE lsCache[1].parses
                  => IF now - lsCache[1].timestamp < CACHE_DURATION
                     THEN LookupHit ELSE LookupMiss]_vars

\* A reloaded page shows the entry stored 29 minutes earlier.
C10_Witness ==
    /\ lsCache # None
    /\ now - lsCache[1].timestamp = 29 * Minute
    /\ insights = None
    /\ loadDeps = threadId /\ threadId # None
    /\ cachedInsights = Some(lsCache[1].data)

\* The step runs the lookup of the load effect for a thread id: after a
\* page load, or in the render that follows a refresh.
LookupStep == loadDeps' # loadDeps /\ loadDeps' # None

C12_CorruptBlobIsMiss ==
    [][LoadStep /\ (lsCache = None \/ ~lsCache[1].parses)
          => /\ lsCache' = None
             /\ cachedInsights' = cachedInsights
             /\ error' = None
             /\ insights' = insights
             /\ progress' = None
             /\ updates' = <<>>
             /\ isStreaming' = TRUE
             /\ started' = started + 1
             /\ abortControllerRef' = started'
             /\ pc'[started'] = "fetching"]_vars

\* The page found an unreadable text, logged it, and is streaming.
C12_Witness ==
    /\ consoleErrors = 1
    /\ lsCache = None
    /\ error = None
    /\ cachedInsights = None
    /\ started = 1 /\ pc[1] = "reading" /\ isStreaming

\* C13: the lookup of a page load shows a fresh entry and starts no stream;
\* it starts a stream only when the entry is absent, unreadable or
\* expired; and no stream is started on a page before its lookup.
C13_CacheConsultedBeforeStream ==
    [][/\ (LoadStep /\ lsCache # None /\ lsCache[1].parses
                /\ CacheFresh(lsCache[1], now))
            => /\ cachedInsights' = Some(lsCache[1].data)
               /\ started' = started
               /\ UNCHANGED <<pc, isStreaming, lsCache>>
       /\ (LoadStep /\ started' # started)
            => \/ lsCache = None
               \/ ~lsCache[1].parses
               \/ ~CacheFresh(lsCache[1], now)
       /\ (loadDeps # threadId \/ threadId = None)
            => started' = started \/ LoadStep]_vars

\* A page shows a stored result and has not issued a request.
C13_Witness ==
    /\ threadId # None /\ loadDeps = threadId
    /\ cachedInsights # None
    /\ insights = None
    /\ abortControllerRef = 0
    /\ ~isStreaming
    /\ lsCache # None

\* The step is the write effect storing a result.
CacheWriteStep ==
    /\ insightsChanged /\ ~insightsChanged'
    /\ insights # None /\ insights' = insights

\* The payload carries a result that the hook stores in insights.
CarriesFinal(p) ==
    /\ p.json = "object"
    /\ \/ p.has_final_answer /\ p.final_answer # None
       \/ p.version # "" /\ p.insights # ""
       \/ NestedJsonOk(p.meta_final_answer)

\* C14: once the effects have run, a completed result R is in storage as
\* {data: R, timestamp: the time of completion}; the entry is written by
\* no other step, and the steps of a session (frames, EOF, errors, the
\* handling of an abort) never touch it; insights is only set by a frame
\* that carries a result.
C14_CacheWrittenOnCompletion ==
    /\ [](~insightsChanged /\ insights # None
            => /\ lsCache # None
               /\ lsCache[1].parses
               /\ lsCache[1].data = insights[1]
               /\ lsCache[1].timestamp <= now
               /\ cachedInsights = insights)
    /\ [][/\ CacheWriteStep => lsCache' = Some(CacheEntry(insights[1], now))
          /\ lsCache' # lsCache => CacheWriteStep \/ loadDeps' # loadDeps
          /\ insightsChanged => now' = now
          /\ (insights' # insights /\ insights' # None)
                => \E s \in Sessions :
                      /\ ReadStep(s)
                      /\ \E i \in DOMAIN inflight[s] :
                            /\ inflight[s][i].kind = "data"
                            /\ CarriesFinal(inflight[s][i].payload)]_vars

\* A stream that started at minute 29 has completed and its result is in
\* storage with that time.
C14_Witness ==
    /\ now = 29 * Minute
    /\ insights # None
    /\ ~insightsChanged
    /\ lsCache = Some(CacheEntry(insights[1], now))
    /\ cachedInsights = insights

\* The lines of a text that end with a newline.
TerminatedLines(t) ==
    LET parts == SplitLines(t) IN SubSeq(parts, 1, Len(parts) - 1)

IsPrefix(a, b) == Len(a) <= Len(b) /\ SubSeq(b, 1, Len(a)) = a

\* The frames the loop dispatches when it gets the text t in one chunk.
FramesInOneChunk(t) ==
    FeedChunk([LoopState(None) EXCEPT !.frames = <<>>], <<>>, t).loop.frames

\* C15: however the body is cut into chunks, the frames dispatched so far
\* are an initial part of the frames of the body read in one chunk, each
\* frame carries the data of a complete line of the body, and once the
\* whole body has been read the two sequences are equal.
C15_ChunkingIndependent ==
    /\ IsPrefix(frames, FramesInOneChunk(text))
    /\ \A i \in DOMAIN frames :
          \E l \in {TerminatedLines(text)[j] : j \in DOMAIN TerminatedLines(text)} :
              Classify(l) = DataLine(frames[i].data)
    /\ pos = Len(text) => frames = FramesInOneChunk(text)

\* A frame has been dispatched and the next data: line has arrived cut in
\* the middle of its prefix.
C15_Witness ==
    /\ buffer = <<"d", "a">>
    /\ Len(frames) = 1
    /\ pc[1] = "reading"

Max(S) == CHOOSE x \in S : \A y \in S : y <= x

\* The event type of the data: line at index i of the lines ls: the name of
\* the last event: line after the last blank line before i, if any.
EventTypeAt(ls, i) ==
    LET blanks == {j \in 1..(i - 1) : ls[j].kind = "blank"}
        from == IF blanks = {} THEN 0 ELSE Max(blanks)
        evs == {j \in (from + 1)..(i - 1) : ls[j].kind = "event"}
    IN IF evs = {} THEN None ELSE Some(ls[Max(evs)].name)

RECURSIVE ExpectedFrames(_, _)
ExpectedFrames(ls, i) ==
    IF i = 0 THEN <<>>
    ELSE IF ls[i].kind = "data"
    THEN Append(ExpectedFrames(ls, i - 1),
                [event |-> EventTypeAt(ls, i), data |-> ls[i].payload])
    ELSE ExpectedFrames(ls, i - 1)

\* C16: at every point of the stream, the frames dispatched are the data:
\* lines completed so far, each with the name of the most recent event:
\* line since the last blank line, or null when there is none.
C16_EventTypeFraming ==
    LET ls == ClassifyAll(TerminatedLines(SubSeq(text, 1, pos)))
    IN frames = ExpectedFrames(ls, Len(ls))

\* A record with two data: lines: the first was dispatched as agent_event,
\* and the second is arriving in pieces while the event type is kept.
C16_Witness ==
    /\ Len(frames) = 1
    /\ frames[1].event = Some("agent_event")
    /\ currentEvent[1] = Some("agent_event")
    /\ buffer # <<>> /\ StartsWith(buffer, DataPrefix)
    /\ pc[1] = "reading"

\* The hook state and the loop variables when the read loop starts.
InitialLoop ==
    [insights |-> None, isStreaming |-> TRUE, progress |-> None,
     error |-> None, updates |-> <<>>, currentEvent |-> None, warned |-> 0,
     insightsSet |-> FALSE, frames |-> <<>>]

\* C17: when the body has ended, every line that ended with a newline has
\* been applied, whether or not a blank line followed the last record; the
\* end of the body sets isStreaming to false and changes nothing else, in
\* particular it sets no error.
C17_EofFinalizes ==
    /\ [](pc[1] = "done" /\ pos = Len(text)
            => LET st == ProcessLines(InitialLoop, ClassifyAll(TerminatedLines(text)))
               IN /\ frames = st.frames
                  /\ updates = st.updates
                  /\ progress = st.progress
                  /\ insights = st.insights
                  /\ error = st.error
                  /\ isStreaming = FALSE)
    /\ [][pc[1] = "reading" /\ pc'[1] = "done"
            => /\ isStreaming' = FALSE
               /\ UNCHANGED <<error, insights, progress, updates, frames>>]_vars

\* A body of an event: line and a data: line with no blank line after them
\* has ended: the event was applied and the session is over without error.
C17_Witness ==
    /\ pc[1] = "done"
    /\ text = EventPrefix \o AgentEventName \o <<NL>> \o DataPrefix \o JsonProg \o <<NL>>
    /\ progress = Some(Prog)
    /\ updates = <<Update("agent_event", Prog)>>
    /\ isStreaming = FALSE
    /\ error = None

\* No ticker has two entries.
UniqueTickers(m) == \A i, j \in DOMAIN m : m[i].ticker = m[j].ticker => i = j

\* C18: seeding with a ticker list leaves every existing entry as it is,
\* adds one pending entry for each listed ticker that had none and nothing
\* else, and seeding again with the same list changes nothing.
C18_SeedIdempotent ==
    /\ UniqueTickers(pipelineStatus)
    /\ \A ts \in TickerLists :
          LET m == pipelineStatus
              m1 == ApplySeed(m, ts)
          IN /\ ApplySeed(m1, ts) = m1
             /\ Len(m1) >= Len(m)
             /\ \A i \in DOMAIN m : m1[i] = m[i]
             /\ \A j \in DOMAIN ts : Has(m1, ts[j])
             /\ \A i \in DOMAIN m1 \ DOMAIN m :
                   /\ m1[i] = Entry(m1[i].ticker, "", None, None)
                   /\ \E j \in DOMAIN ts : ts[j] = m1[i].ticker
             /\ UniqueTickers(m1)
             /\ Len(m1) = Len(m) + Cardinality({ts[j] : j \in DOMAIN ts}
                                                \ {m[i].ticker : i \in DOMAIN m})

\* AAPL has left pending and MSFT is pending: seeding with both again
\* keeps exactly these two entries.
C18_Witness ==
    /\ Len(pipelineStatus) = 2
    /\ pipelineStatus[1] = Entry("AAPL", "accepted", None, None)
    /\ pipelineStatus[2] = Entry("MSFT", "", None, None)
    /\ ApplySeed(pipelineStatus, <<"AAPL", "MSFT">>) = pipelineStatus

C20_CompletedCount ==
    /\ Completed(pipelineStatus) =
          Cardinality({i \in DOMAIN pipelineStatus :
                          pipelineStatus[i].status \notin {"", "processing"}})
    /\ Completed(pipelineStatus) <= Len(pipelineStatus)

\* One entry is pending and one is rejected: one of two is completed.
C20_Witness ==
    /\ Len(pipelineStatus) = 2
    /\ \E i, j \in DOMAIN pipelineStatus :
          /\ pipelineStatus[i].status = ""
          /\ pipelineStatus[j].status = "rejected"
    /\ Completed(pipelineStatus) = 1

\* C21: the log only grows between two calls of startStream: every step
\* that starts no session leaves the entries the log had, in their order,
\* at the front of the log; a step that starts a session leaves it empty.
C21_HistoryAppendOnly ==
    [][IF started' = started
       THEN IsPrefix(updates, updates')
       ELSE updates' = <<>>]_vars

\* The first session logged a result; the second session started with an
\* empty log and has logged one progress event.
C21_Witness ==
    /\ started = 2
    /\ pc[2] = "reading"
    /\ updates = <<Update("agent_event", Prog)>>
    /\ insights # None

\* C22: every Progress event applied becomes the progress snapshot, so the
\* current phase is the phase of the event, whatever phase was held before,
\* and the event is logged.
C22_PhaseLastWriterWins ==
    [][\A p \in FramePayloads :
          FrameRead(1, Some("agent_event"), p) /\ IsProgress(p)
              => /\ progress' = Some(p)
                 /\ progress'[1].phase = p.phase
                 /\ Len(updates') > Len(updates)
                 /\ updates'[Len(updates) + 1] = Update("agent_event", p)]_vars

\* An event of phase insight_pipeline was applied after one of phase
\* complete: the current phase went back.
C22_Witness ==
    /\ progress = Some(Prog)
    /\ Len(updates) = 3
    /\ updates[1] = Update("agent_event", Complete)
    /\ updates[3] = Update("agent_event", Prog)
    /\ PhaseRank(progress[1].phase) < PhaseRank(updates[1].data.phase)

\* The progress_percent of the payload is a JSON number.
NumericPercent(p) == p.progress_percent \in {"0", "50", "90", "95", "100"}

\* The payload is a legacy validator final.
IsValidator(p) == p.node = "validator" /\ p.status = "result" /\ p.meta_final_answer # ""

\* What the legacy rules of an agent_event leave: the validator final
\* first, then the summary-only entry in the log, else nothing.
LegacyOutcome(p) ==
    IF IsValidator(p)
    THEN IF NestedJsonOk(p.meta_final_answer)
         THEN /\ insights' = Some(NestedJson(p.meta_final_answer))
              /\ isStreaming' = FALSE
              /\ updates' = Append(updates, Update("final", NestedJson(p.meta_final_answer)))
              /\ error' = error
         ELSE /\ error' = Some("Failed to parse final insights")
              /\ isStreaming' = FALSE
              /\ UNCHANGED <<insights, updates>>
    ELSE IF p.summary # ""
    THEN /\ updates' = Append(updates, Update("agent_event", p))
         /\ UNCHANGED <<insights, isStreaming, error>>
    ELSE UNCHANGED <<insights, isStreaming, error, updates>>

\* C23: an agent_event frame becomes the progress snapshot exactly when its
\* payload has a phase and a progress_percent that is a number; any other
\* agent_event payload leaves the snapshot alone and is handled by the
\* legacy rules, validator final before summary.
C23_ProgressIffNumericPercent ==
    [][\A p \in FramePayloads :
          FrameRead(1, Some("agent_event"), p)
              => IF p.phase # "" /\ NumericPercent(p)
                 THEN progress' = Some(p)
                 ELSE progress' = progress /\ LegacyOutcome(p)]_vars

\* The event name a fallback entry is logged under.
FallbackName(ce) == IF ce # None THEN ce[1] ELSE "message"

\* C24: a frame whose event type is absent or not recognized is handled by
\* the shape of its payload: with an action field it becomes the progress
\* snapshot and is logged, with version and insights it is the result and
\* ends streaming, and otherwise it changes nothing.
C24_FallbackByShape ==
    [][\A p \in FramePayloads, ce \in {None, Some("progress")} :
          FrameRead(1, ce, p)
              => IF p.action # ""
                 THEN /\ progress' = Some(p)
                      /\ updates' = Append(updates, Update(FallbackName(ce), p))
                 ELSE IF p.version # "" /\ p.insights # ""
                 THEN /\ insights' = Some(p)
                      /\ isStreaming' = FALSE
                      /\ updates' = Append(updates, Update(FallbackName(ce), p))
                 ELSE UNCHANGED hookState]_vars

\* C25: while the session started last is live and has applied no terminal
\* event, isStreaming is true, whatever handlers of earlier sessions have
\* run in between.
C25_StreamingWhileLive ==
    \A s \in Sessions :
        (abortControllerRef = s /\ Live(s) /\ ~TerminalReached) => isStreaming

\* The step is a forced refresh: the page had a thread id and gets another.
RefreshStep == threadId # None /\ threadId' # None /\ threadId' # threadId

\* C26: a forced refresh stores a new thread id, leaves no cache entry and
\* no earlier session live, and starts exactly one session, which is
\* fetching on a signal that has not been aborted when the refresh and the
\* effects of its render are over.
C26_RefreshStartsOneStream ==
    [][RefreshStep
          => /\ lsThreadId' # lsThreadId
             /\ threadId' = Some(lsThreadId')
             /\ lsCache' = None
             /\ \A s \in Sessions :
                   s <= started => pc'[s] \notin {"fetching", "reading"}
             /\ started' = started + 1
             /\ abortControllerRef' = started'
             /\ pc'[started'] = "fetching"
             /\ ~aborted'[started']]_vars

\* The session started last has captured a result: its log holds a final
\* entry or the entry of a legacy final.
ResultCaptured ==
    /\ insights # None
    /\ \E i \in DOMAIN updates : updates[i].event \notin {"agent_event", "error"}

\* C27: between two calls of startStream the result of the session and an
\* error are never both set.
C27_OutcomesExclusive == ~(ResultCaptured /\ error # None)

\* C28: when the session started last has ended by itself (end of stream or
\* failure, no abort), a result or an error is set.
C28_EndsWithOutcome ==
    \A s \in Sessions :
        (s = started /\ pc[s] = "done" /\ ~aborted[s])
            => insights # None \/ error # None

\* C29: a legacy validator frame whose nested final_answer is not JSON sets
\* the error to 'Failed to parse final insights' and isStreaming to false,
\* leaves result, snapshot and log as they are, and is not counted as a
\* malformed line.
C29_BadNestedAnswerIsError ==
    [][\A p \in FramePayloads :
          (/\ FrameRead(1, Some("agent_event"), p)
           /\ ~IsProgress(p)
           /\ IsValidator(p)
           /\ ~NestedJsonOk(p.meta_final_answer))
              => /\ error' = Some("Failed to parse final insights")
                 /\ isStreaming' = FALSE
                 /\ insights' = insights
                 /\ updates' = updates
                 /\ progress' = progress
                 /\ warned' = warned]_vars

\* A legacy final was applied, then a validator frame with an unreadable
\* nested answer: the error is set, the result and the log are those of the
\* legacy final.
C29_Witness ==
    /\ error = Some("Failed to parse final insights")
    /\ ~isStreaming
    /\ insights = Some(R1)
    /\ updates = <<Update("message", R1)>>
    /\ warned = 0
    /\ sent = 3

\* C30: when the body has been read to its end, every data: line the
\* server sent has been dispatched, the last one also when no newline
\* follows it.
C30_NoFrameLostAtEof ==
    (pc[1] = "done" /\ pos = Len(text))
        => frames = FramesInOneChunk(text \o <<NL>>)

====
